---------------------------- MODULE Spec2Model ----------------------------
(***************************************************************************)
(* questioner: an HTTP-to-Discord bridge (src/src/index.ts).               *)
(*                                                                         *)
(* One POST /channel/:channel/topic/:topic/announcement request runs the   *)
(* handler of lines 105-182: validate (assert), create a Discord client,   *)
(* register a once-handler for ClientReady, log in.  The ready callback    *)
(* fetches the channel, the thread, extracts images from the description,  *)
(* composes an embed and sends it, then answers 204.  Every failure goes   *)
(* through next(err) to expressJsonErrorHandler.                           *)
(*                                                                         *)
(* JavaScript runs each piece of code between two awaits to completion, so *)
(* an action is one such piece.  Texts the code scans (title, description, *)
(* base url) are sequences of one-character strings; texts it only passes  *)
(* on or concatenates (ids, token, messages) are strings.                  *)
(***************************************************************************)
EXTENDS Integers, Sequences, FiniteSets, TLC

VARIABLES
    nodeEnv,    \* process.env.NODE_ENV, read by isProductionEnvironment
    req,        \* req[r]: params and body of request r, once received
    handler,    \* handler[r]: position of the async route handler
    cb,         \* cb[r]: position of the ClientReady callback
    trace,      \* trace[r]: console output, downstream calls and response calls, in order
    response,   \* response[r]: the Express response object of request r
    outbox,     \* outbox[r]: the payload handed to send, if any
    arg,        \* input of a pure function under test
    ret         \* its result

vars == <<nodeEnv, req, handler, cb, trace, response, outbox, arg, ret>>

pipelineVars == <<nodeEnv, req, handler, cb, trace, response, outbox>>

(***************************************************************************)
(* Bounds of the model.                                                    *)
(***************************************************************************)
NumRequests == 1
MaxFrags == 4
MaxTitleLen == 5

(***************************************************************************)
(* JavaScript values.  An optional number is <<>> (undefined) or <<n>>.    *)
(***************************************************************************)
Str(s) == [t |-> "string", v |-> s]
Undefined == [t |-> "undefined", v |-> ""]
Null == [t |-> "null", v |-> ""]
UndefinedText == [t |-> "undefined", v |-> <<>>]

\* !value is false: the value is truthy (a non-empty string)
Truthy(x) == x.t = "string" /\ Len(x.v) > 0

\* a ?? b
Coalesce(a, b) == IF a # <<>> THEN a ELSE b

Ev(kind, a) == [kind |-> kind, arg |-> a]


(***************************************************************************)
(* isPrerelease (lines 51-53).  String.prototype.indexOf scans from the    *)
(* left and returns the 0-based index of the first occurrence, or -1.      *)
(***************************************************************************)
RECURSIVE IndexFrom(_, _, _)
IndexFrom(s, pat, i) ==
    IF i + Len(pat) > Len(s) THEN -1
    ELSE IF SubSeq(s, i + 1, i + Len(pat)) = pat THEN i
    ELSE IndexFrom(s, pat, i + 1)

IndexOf(s, pat) == IndexFrom(s, pat, 0)

MarkerPre == <<"-", "p", "r", "e">>
MarkerRc == <<"-", "r", "c">>

\* indexOf compared with > 0: a marker at the very start is missed
isPrereleaseNotAtStart(title) == IndexOf(title, MarkerPre) > 0 \/ IndexOf(title, MarkerRc) > 0

isPrerelease(title) == IndexOf(title, MarkerPre) >= 0 \/ IndexOf(title, MarkerRc) >= 0

\* line 154: .setColor(isPrerelease(title) ? 'Navy' : 'Blurple')
EmbedColor(title) == IF isPrerelease(title) THEN "Navy" ELSE "Blurple"

(***************************************************************************)
(* extractImagesFromDescription (lines 55-75).                             *)
(*                                                                         *)
(* The pattern is  !\[([^\]\r\n]+)]\(([^)\r\n]+)\)  with the g flag.  Both *)
(* groups are greedy runs of a negated class followed by the one character *)
(* the class excludes, so backtracking never finds a second way to match:  *)
(* the run is the maximal one, and the match fails if the delimiter does   *)
(* not follow it.                                                          *)
(***************************************************************************)
\* the alt class without the line breaks: [^\]]
AltStopBracketOnly == {"]"}

AltStop == {"]", "\r", "\n"}
UrlStop == {")", "\r", "\n"}

\* the end of the run of characters outside `stop` that begins at i:
\* the index of the first character in `stop`, or Len(s) + 1
RECURSIVE RunEnd(_, _, _)
RunEnd(s, i, stop) ==
    IF i > Len(s) \/ s[i] \in stop THEN i ELSE RunEnd(s, i + 1, stop)

\* the regular expression tried at index i: <<>> or <<the match>>
MatchAt(s, i) ==
    LET a == RunEnd(s, i + 2, AltStop)
        u == RunEnd(s, a + 2, UrlStop)
    IN  IF /\ i + 1 <= Len(s)
           /\ s[i] = "!"
           /\ s[i + 1] = "["
           /\ a > i + 2
           /\ a + 1 <= Len(s)
           /\ s[a] = "]"
           /\ s[a + 1] = "("
           /\ u > a + 2
           /\ u <= Len(s)
           /\ s[u] = ")"
        THEN << [alt |-> SubSeq(s, i + 2, a - 1),
                 url |-> SubSeq(s, a + 2, u - 1),
                 last |-> u] >>
        ELSE <<>>

\* the decimal digits of a positive number ('image' + images.length)
RECURSIVE Digits(_)
Digits(n) ==
    LET d == <<"0", "1", "2", "3", "4", "5", "6", "7", "8", "9">>[(n % 10) + 1]
    IN  IF n < 10 THEN <<d>> ELSE Append(Digits(n \div 10), d)

\* lines 65-66: 'image' + images.length + ':' + description, in brackets
Placeholder(n, alt) ==
    <<"[", "i", "m", "a", "g", "e">> \o Digits(n) \o <<":">> \o alt \o <<"]">>

(***************************************************************************)
(* new URL(url, baseUrl).toString() (line 62), for the texts of this       *)
(* model: no text holds "/", "?", "#", "\", "." or a blank inside an image *)
(* url, and a base with a scheme is "https://cdn.example/".  The base is   *)
(* parsed first, and a base without a scheme makes the constructor throw   *)
(* whatever the url is; an url with a scheme of its own is kept; any other *)
(* url replaces what follows the last "/" of the base.  <<>> is the throw. *)
(***************************************************************************)
Alpha == {"a", "b", "c", "d", "e", "h", "i", "l", "m", "n", "p", "s", "t", "u", "v", "x"}

HasScheme(s) ==
    \E k \in 2..Len(s) :
        /\ s[k] = ":"
        /\ \A j \in 1..(k - 1) : s[j] \in Alpha

RECURSIVE DirEnd(_, _)
DirEnd(s, i) == IF i = 0 \/ s[i] = "/" THEN i ELSE DirEnd(s, i - 1)

ResolveUrl(url, base) ==
    IF ~HasScheme(base) THEN <<>>
    ELSE IF HasScheme(url) THEN <<url>>
    ELSE <<SubSeq(base, 1, DirEnd(base, Len(base))) \o url>>

\* the placeholder numbered before the push: image0, image1, ...
RECURSIVE ReplaceFromZeroBased(_, _, _, _, _)
ReplaceFromZeroBased(s, i, images, text, base) ==
    IF i > Len(s) THEN [threw |-> FALSE, text |-> text, images |-> images]
    ELSE LET m == MatchAt(s, i)
         IN  IF m = <<>>
             THEN ReplaceFromZeroBased(s, i + 1, images, Append(text, s[i]), base)
             ELSE LET href == ResolveUrl(m[1].url, base)
                      pushed == Append(images, [attachment |-> href[1],
                                                description |-> m[1].alt])
                  IN  IF href = <<>>
                      THEN [threw |-> TRUE, text |-> <<>>, images |-> <<>>]
                      ELSE ReplaceFromZeroBased(s, m[1].last + 1, pushed,
                                       text \o Placeholder(Len(images), m[1].alt), base)

\* String.prototype.replace with the g flag and the callback of lines 60-67,
\* from index i on, with the images pushed and the text produced so far
RECURSIVE ReplaceFrom(_, _, _, _, _)
ReplaceFrom(s, i, images, text, base) ==
    IF i > Len(s) THEN [threw |-> FALSE, text |-> text, images |-> images]
    ELSE LET m == MatchAt(s, i)
         IN  IF m = <<>>
             THEN ReplaceFrom(s, i + 1, images, Append(text, s[i]), base)
             ELSE LET href == ResolveUrl(m[1].url, base)
                      pushed == Append(images, [attachment |-> href[1],
                                                description |-> m[1].alt])
                  IN  IF href = <<>>
                      THEN [threw |-> TRUE, text |-> <<>>, images |-> <<>>]
                      ELSE ReplaceFrom(s, m[1].last + 1, pushed,
                                       text \o Placeholder(Len(pushed), m[1].alt), base)

extractImagesFromDescription(baseUrl, description) ==
    ReplaceFrom(description, 1, <<>>, <<>>, baseUrl)

(***************************************************************************)
(* Errors.  fail (lines 40-43) throws new Error(message): an Error has a   *)
(* message, a name and a stack, and no status, statusCode, code or type.   *)
(***************************************************************************)
JsError(name, message, status, statusCode, code, type) ==
    [name |-> name, message |-> message, status |-> status,
     statusCode |-> statusCode, code |-> code, type |-> type,
     stack |-> name \o ": " \o message \o "\n    at ..."]

NewError(message) == JsError("Error", message, <<>>, <<>>, <<>>, <<>>)

\* new URL(...) throwing (line 62)
InvalidUrlError == JsError("TypeError", "Invalid URL", <<>>, <<>>, <<"ERR_INVALID_URL">>, <<>>)

\* a builder of the embed rejecting a value (lines 152-161)
ComposeError == JsError("Error", "Received one or more errors", <<>>, <<>>, <<>>, <<>>)

\* express.json() (line 86) failing to parse the body
BodyParseError ==
    JsError("SyntaxError", "Unexpected token in JSON", <<400>>, <<400>>, <<>>,
            <<"entity.parse.failed">>)

\* what the Discord client rejects a call with
LoginRejections ==
    { JsError("Error [TokenInvalid]", "An invalid token was provided.", <<>>, <<>>,
              <<"TokenInvalid">>, <<>>),
      JsError("DiscordAPIError[0]", "401: Unauthorized", <<401>>, <<>>, <<"0">>, <<>>) }

CallRejections ==
    { JsError("DiscordAPIError[10003]", "Unknown Channel", <<404>>, <<>>, <<"10003">>, <<>>),
      JsError("Error", "connect ETIMEDOUT", <<>>, <<>>, <<"ETIMEDOUT">>, <<>>) }

(***************************************************************************)
(* isProductionEnvironment (lines 13-15) and expressJsonErrorHandler       *)
(* (lines 17-38).                                                          *)
(***************************************************************************)
isProductionEnvironment == nodeEnv = "production"

\* the status taken as it comes: line 20 left out
ErrorStatusUnclamped(err) ==
    Coalesce(Coalesce(err.status, err.statusCode), <<500>>)[1]

ErrorStatus(err) ==
    LET status == Coalesce(Coalesce(err.status, err.statusCode), <<500>>)[1]
    IN  IF status < 400 THEN 500 ELSE status

ErrorBody(err) ==
    [status |-> ErrorStatus(err),
     stack |-> IF ~isProductionEnvironment THEN <<err.stack>> ELSE <<>>,
     message |-> <<err.message>>,
     code |-> err.code,
     name |-> <<err.name>>,
     type |-> err.type]

\* The response object: the first write is what the caller receives.
NoResponse == [writes |-> 0, status |-> 200, body |-> <<>>]

Written(resp, status, body) ==
    IF resp.writes = 0
    THEN [writes |-> 1, status |-> status, body |-> body]
    ELSE [resp EXCEPT !.writes = @ + 1]

\* res.status(status); ...; res.json(body)
expressJsonErrorHandler(err, resp) ==
    [events |-> << Ev("res.status", ToString(ErrorStatus(err))), Ev("res.json", err.message) >>,
     response |-> Written(resp, ErrorStatus(err), <<ErrorBody(err)>>)]

\* next(err): Express runs the error middleware registered at line 184
NextErr(err, resp) ==
    LET h == expressJsonErrorHandler(err, resp)
    IN  [events |-> <<Ev("next", err.message)>> \o h.events, response |-> h.response]

\* the 204 forgotten: send() alone answers 200
Respond204StatusLeft(resp) ==
    [events |-> <<Ev("res.send", "")>>,
     response |-> Written(resp, 200, <<>>)]

\* response.status(204); response.send()  (lines 169-170)
Respond204(resp) ==
    [events |-> << Ev("res.status", "204"), Ev("res.send", "") >>,
     response |-> Written(resp, 204, <<>>)]

(***************************************************************************)
(* The assert sequence of the handler (lines 123-128) with assert and fail *)
(* (lines 40-49): the name of the first value that is falsy, or <<>>.      *)
(***************************************************************************)
\* the token checked before the base url
AssertsTokenFirst(rq) ==
    << <<rq.token, "Bot token">>,
       <<rq.baseUrl, "Base url">>,
       <<rq.channel, "Channel ID">>,
       <<rq.topic, "Topic ID">>,
       <<rq.title, "Post title">>,
       <<rq.link, "Post link">> >>

Asserts(rq) ==
    << <<rq.baseUrl, "Base url">>,
       <<rq.token, "Bot token">>,
       <<rq.channel, "Channel ID">>,
       <<rq.topic, "Topic ID">>,
       <<rq.title, "Post title">>,
       <<rq.link, "Post link">> >>

RECURSIVE FirstFailed(_, _)
FirstFailed(checks, i) ==
    IF i > Len(checks) THEN <<>>
    ELSE IF ~Truthy(checks[i][1]) THEN <<checks[i][2]>>
    ELSE FirstFailed(checks, i + 1)

RequiredMessage(name) == name \o " is required."

(***************************************************************************)
(* The requests the model sends.  The route of line 106 only matches a     *)
(* non-empty channel and topic segment, so both parameters are non-empty   *)
(* strings; the body fields are whatever the caller's JSON holds.          *)
(***************************************************************************)
BaseCdn ==
    <<"h", "t", "t", "p", "s", ":", "/", "/", "c", "d", "n", ".",
      "e", "x", "a", "m", "p", "l", "e", "/">>
BaseNoScheme == <<"c", "d", "n">>

TitleRc == <<"v", "1", "-", "r", "c">>

DescImage == <<"!", "[", "a", "]", "(", "u", ")">>

ChannelIds == {"c1", "c2"}
TopicIds == {"t1"}

RequestInputs ==
    [channel : {Str(c) : c \in ChannelIds},
     topic : {Str(t) : t \in TopicIds},
     baseUrl : {UndefinedText, Str(<<>>), Str(BaseNoScheme), Str(BaseCdn)},
     token : {Null, Str("tok")},
     title : {Str(<<>>), Str(TitleRc)},
     link : {Undefined, Str("https://x/y")},
     author : {Undefined},
     description : {UndefinedText, Str(DescImage)}]

NoRequest ==
    [channel |-> Undefined, topic |-> Undefined, baseUrl |-> UndefinedText,
     token |-> Undefined, title |-> UndefinedText, link |-> Undefined,
     author |-> Undefined, description |-> UndefinedText]

\* value || fallback
OrElse(x, fallback) == IF Truthy(x) THEN x.v ELSE fallback

Requests == DOMAIN handler

(***************************************************************************)
(* One piece of code run to completion for request r: the positions it     *)
(* leaves the handler and the callback at, what it appends to the trace,   *)
(* and the response object after it.                                       *)
(***************************************************************************)
Step(r, h, c, events, resp) ==
    /\ handler' = [handler EXCEPT ![r] = h]
    /\ cb' = [cb EXCEPT ![r] = c]
    /\ trace' = [trace EXCEPT ![r] = @ \o events]
    /\ response' = [response EXCEPT ![r] = resp]
    /\ UNCHANGED <<nodeEnv, arg, ret>>

\* one client kept by the module and used by every request
ClientShared(r) == 1

\* line 130: new Client(...) is evaluated in the run of the handler for
\* request r: every run allocates a client of its own, named here by the
\* request.  Lines 132, 136 and 176 use that client through the constant of
\* the run.
Client(r) == r

\* line 78: req.timedout.  No statement of the program assigns it and no
\* middleware that would is mounted (lines 85-87), so it reads as undefined.
ReqTimedout(r) == FALSE

\* lines 77-81: whether haltOnTimedOut passes the request on to the route
haltOnTimedOut(r) == ~ReqTimedout(r)

\* express.json() rejects the body: the route handler never runs
BodyRejected(r) ==
    /\ handler[r] = "idle"
    /\ LET e == NextErr(BodyParseError, response[r])
       IN  Step(r, "parseFailed", cb[r], e.events, e.response)
    /\ UNCHANGED <<req, outbox>>

\* the client created and the callback registered before the checks
AnnouncementClientFirst(r) ==
    /\ handler[r] = "idle"
    /\ haltOnTimedOut(r)
    /\ \E rq \in RequestInputs :
        LET body == IF isProductionEnvironment THEN <<>>
                    ELSE <<Ev("console.log", "Request body")>>
            client == << Ev("new Client", ToString(Client(r))),
                         Ev("client.once", ToString(Client(r))) >>
            failed == FirstFailed(Asserts(rq), 1)
        IN  /\ req' = [req EXCEPT ![r] = rq]
            /\ IF failed # <<>>
               THEN LET message == RequiredMessage(failed[1])
                        e == NextErr(NewError(message), response[r])
                    IN  Step(r, "rejected", "registered",
                             body \o client \o <<Ev("console.error", message)>> \o e.events,
                             e.response)
               ELSE Step(r, "awaitLogin", "registered",
                         body \o client \o <<Ev("client.login", rq.token.v)>>,
                         response[r])
    /\ UNCHANGED outbox

\* lines 107-130, 132 (registration), 176 (the call of login), and the
\* outer catch at 178-180 when an assert fails
Announcement(r) ==
    /\ handler[r] = "idle"
    /\ haltOnTimedOut(r)
    /\ \E rq \in RequestInputs :
        LET body == IF isProductionEnvironment THEN <<>>
                    ELSE <<Ev("console.log", "Request body")>>
            failed == FirstFailed(Asserts(rq), 1)
        IN  /\ req' = [req EXCEPT ![r] = rq]
            /\ IF failed # <<>>
               THEN LET message == RequiredMessage(failed[1])
                        e == NextErr(NewError(message), response[r])
                    IN  Step(r, "rejected", cb[r],
                             body \o <<Ev("console.error", message)>> \o e.events,
                             e.response)
               ELSE Step(r, "awaitLogin", "registered",
                         body \o << Ev("new Client", ToString(Client(r))),
                                    Ev("client.once", ToString(Client(r))),
                                    Ev("client.login", rq.token.v) >>,
                         response[r])
    /\ UNCHANGED outbox

\* the handler answering 204 itself once login resolved
LoginResolvedAnswers(r) ==
    /\ handler[r] = "awaitLogin"
    /\ LET e == Respond204(response[r])
       IN  Step(r, "loggedIn", cb[r], e.events, e.response)
    /\ UNCHANGED <<req, outbox>>

\* line 177: login resolved.  The continuation only writes "Logged in
\* successfully" to the console: handler[r] = "loggedIn" records that it ran.
LoginResolved(r) ==
    /\ handler[r] = "awaitLogin"
    /\ Step(r, "loggedIn", cb[r], <<>>, response[r])
    /\ UNCHANGED <<req, outbox>>

\* lines 178-180: login rejected.  The client emits ClientReady only once
\* its connection is up, and then login does not reject any more.
LoginRejected(r) ==
    /\ handler[r] = "awaitLogin"
    /\ cb[r] = "registered"
    /\ \E err \in LoginRejections :
        LET e == NextErr(err, response[r])
        IN  Step(r, "loginFailed", cb[r], e.events, e.response)
    /\ UNCHANGED <<req, outbox>>

\* lines 132-136: the ready callback starts and calls channels.fetch
ClientReady(r) ==
    /\ handler[r] \in {"awaitLogin", "loggedIn"}
    /\ cb[r] = "registered"
    /\ Step(r, handler[r], "fetchChannel",
            << Ev("console.log", "Bot is ready"),
               Ev("channels.fetch", req[r].channel.v) >>,
            response[r])
    /\ UNCHANGED <<req, outbox>>

\* the check of line 138 left out: the topic is looked up whatever
\* channels.fetch returned
ChannelFetchedUnchecked(r) ==
    /\ cb[r] = "fetchChannel"
    /\ \E found \in BOOLEAN :
        IF found
        THEN Step(r, handler[r], "fetchTopic",
                  << Ev("console.log", "Found channel (" \o req[r].channel.v \o ")"),
                     Ev("threads.fetch", req[r].topic.v) >>,
                  response[r])
        ELSE Step(r, handler[r], "fetchTopic",
                  <<Ev("threads.fetch", req[r].topic.v)>>, response[r])
    /\ UNCHANGED <<req, outbox>>

\* lines 136-143: channels.fetch resolved, with a channel or with nothing
ChannelFetched(r) ==
    /\ cb[r] = "fetchChannel"
    /\ \E found \in BOOLEAN :
        IF found
        THEN Step(r, handler[r], "fetchTopic",
                  << Ev("console.log", "Found channel (" \o req[r].channel.v \o ")"),
                     Ev("threads.fetch", req[r].topic.v) >>,
                  response[r])
        ELSE LET message == "Channel with id " \o req[r].channel.v \o " not found"
                 e == NextErr(NewError(message), response[r])
             IN  Step(r, handler[r], "channelNotFound",
                      <<Ev("console.error", message)>> \o e.events, e.response)
    /\ UNCHANGED <<req, outbox>>

\* the inner catch swallowing the error instead of handing it to next
CallRejectedSwallowed(r) ==
    /\ cb[r] \in {"fetchChannel", "fetchTopic", "sending"}
    /\ \E err \in CallRejections :
        LET c == CASE cb[r] = "fetchChannel" -> "channelRejected"
                   [] cb[r] = "fetchTopic" -> "topicRejected"
                   [] OTHER -> "sendRejected"
        IN  Step(r, handler[r], c, <<Ev("console.error", err.message)>>, response[r])
    /\ UNCHANGED <<req, outbox>>

\* a rejected call issued a second time
CallRejectedRetried(r) ==
    /\ cb[r] \in {"fetchChannel", "fetchTopic", "sending"}
    /\ LET kind == CASE cb[r] = "fetchChannel" -> "channels.fetch"
                      [] cb[r] = "fetchTopic" -> "threads.fetch"
                      [] OTHER -> "send"
           issued == Cardinality({i \in 1..Len(trace[r]) : trace[r][i].kind = kind})
       IN  \E err \in CallRejections :
               IF issued < 2
               THEN Step(r, handler[r], cb[r], <<Ev(kind, "")>>, response[r])
               ELSE LET e == NextErr(err, response[r])
                    IN  Step(r, handler[r], "sendRejected", e.events, e.response)
    /\ UNCHANGED <<req, outbox>>

\* lines 171-173 after a rejected await in the callback
CallRejected(r) ==
    /\ cb[r] \in {"fetchChannel", "fetchTopic", "sending"}
    /\ \E err \in CallRejections :
        LET e == NextErr(err, response[r])
            c == CASE cb[r] = "fetchChannel" -> "channelRejected"
                   [] cb[r] = "fetchTopic" -> "topicRejected"
                   [] OTHER -> "sendRejected"
        IN  Step(r, handler[r], c, e.events, e.response)
    /\ UNCHANGED <<req, outbox>>

\* lines 150-161: the embed and the files handed to send
Compose(rq, extracted) ==
    [embeds |-> << [title |-> rq.title.v,
                    color |-> EmbedColor(rq.title.v),
                    url |-> rq.link.v,
                    description |-> extracted.text,
                    author |-> OrElse(rq.author, "madtisa")] >>,
     files |-> extracted.images]

\* lines 143-166: threads.fetch resolved, with a thread or with nothing; with
\* a thread the callback extracts the images, builds the embed (a builder may
\* reject a value) and calls send
TopicFetched(r) ==
    /\ cb[r] = "fetchTopic"
    /\ \E found \in BOOLEAN, built \in BOOLEAN :
        LET rq == req[r]
            extracted == extractImagesFromDescription(rq.baseUrl.v,
                                                      OrElse(rq.description, <<>>))
            foundLog == <<Ev("console.log", "Found topic (" \o rq.topic.v \o ")")>>
            infoLog == <<Ev("console.info", "Extracted images from description: ")>>
        IN  IF ~found
            THEN LET message == "Topic with id " \o rq.topic.v \o " not found"
                     e == NextErr(NewError(message), response[r])
                 IN  /\ Step(r, handler[r], "topicNotFound",
                             <<Ev("console.error", message)>> \o e.events, e.response)
                     /\ UNCHANGED outbox
            ELSE IF extracted.threw
            THEN LET e == NextErr(InvalidUrlError, response[r])
                 IN  /\ Step(r, handler[r], "extractThrew", foundLog \o e.events, e.response)
                     /\ UNCHANGED outbox
            ELSE IF ~built
            THEN LET e == NextErr(ComposeError, response[r])
                 IN  /\ Step(r, handler[r], "composeThrew",
                             foundLog \o infoLog \o e.events, e.response)
                     /\ UNCHANGED outbox
            ELSE /\ Step(r, handler[r], "sending",
                         foundLog \o infoLog \o <<Ev("send", rq.topic.v)>>, response[r])
                 /\ outbox' = [outbox EXCEPT ![r] = <<Compose(rq, extracted)>>]
    /\ UNCHANGED req

\* lines 163-170: send resolved
SendResolved(r) ==
    /\ cb[r] = "sending"
    /\ LET e == Respond204(response[r])
       IN  Step(r, handler[r], "done",
                <<Ev("console.info", "Message has been sent successfully")>> \o e.events,
                e.response)
    /\ UNCHANGED <<req, outbox>>

(***************************************************************************)
(* The server: each request runs the pipeline once.                        *)
(***************************************************************************)
InitRequests(ids) ==
    /\ nodeEnv \in {"production", "development"}
    /\ req = [r \in ids |-> NoRequest]
    /\ handler = [r \in ids |-> "idle"]
    /\ cb = [r \in ids |-> "none"]
    /\ trace = [r \in ids |-> <<>>]
    /\ response = [r \in ids |-> NoResponse]
    /\ outbox = [r \in ids |-> <<>>]

Init ==
    /\ InitRequests(1..NumRequests)
    /\ arg = <<>>
    /\ ret = <<>>

Next ==
    \/ \E r \in Requests : BodyRejected(r)
    \/ \E r \in Requests : Announcement(r)
    \/ \E r \in Requests : LoginResolved(r)
    \/ \E r \in Requests : LoginRejected(r)
    \/ \E r \in Requests : ClientReady(r)
    \/ \E r \in Requests : ChannelFetched(r)
    \/ \E r \in Requests : TopicFetched(r)
    \/ \E r \in Requests : CallRejected(r)
    \/ \E r \in Requests : SendResolved(r)

Spec == Init /\ [][Next]_vars

\* Every call to the Discord client returns or fails, the ready event comes
\* once the connection is up, and the event loop runs whatever is pending: as
\* long as some step of some request can be taken, one is.  Each request takes
\* finitely many steps, so no request is starved for ever.
Fairness == WF_vars(Next)

FairSpec == Spec /\ Fairness

(***************************************************************************)
(* Several requests in flight at once.  Their handlers and callbacks run   *)
(* on one event loop, each piece to completion, in any order.  The inputs  *)
(* are two valid requests that differ in channel and description and one   *)
(* that lacks its token.                                                   *)
(***************************************************************************)
NumConcurrent == 2

ConcurrentInputs ==
    { rq \in RequestInputs :
        /\ rq.baseUrl = Str(BaseCdn)
        /\ rq.title = Str(TitleRc)
        /\ rq.link = Str("https://x/y")
        /\ \/ rq.channel = Str("c1") /\ rq.description = Str(DescImage)
              /\ rq.token = Str("tok")
           \/ rq.channel = Str("c2") /\ rq.description = UndefinedText }

InitConcurrent ==
    /\ InitRequests(1..NumConcurrent)
    /\ arg = <<>>
    /\ ret = <<>>

\* the step leaves every request with one of the inputs above
InputsKept == \A r \in Requests : req'[r] \in ConcurrentInputs \cup {NoRequest}

NextConcurrent ==
    \/ \E r \in Requests : BodyRejected(r) /\ InputsKept
    \/ \E r \in Requests : Announcement(r) /\ InputsKept
    \/ \E r \in Requests : LoginResolved(r) /\ InputsKept
    \/ \E r \in Requests : LoginRejected(r) /\ InputsKept
    \/ \E r \in Requests : ClientReady(r) /\ InputsKept
    \/ \E r \in Requests : ChannelFetched(r) /\ InputsKept
    \/ \E r \in Requests : TopicFetched(r) /\ InputsKept
    \/ \E r \in Requests : CallRejected(r) /\ InputsKept
    \/ \E r \in Requests : SendResolved(r) /\ InputsKept

SpecConcurrent == InitConcurrent /\ [][NextConcurrent]_vars

(***************************************************************************)
(* The time budget of lines 93-95.  The HTTP server measures requestTimeout *)
(* (5000 ms) and headersTimeout from the first byte of a request to its    *)
(* last: a connection whose request is still being received when the       *)
(* budget runs out is destroyed and the middleware chain never runs.  A    *)
(* request that has been received completely is not watched any more, and  *)
(* no statement of the handler or of the ready callback reads a clock or   *)
(* req.timedout: when the budget runs out during the pipeline, nothing in  *)
(* the program changes.                                                    *)
(***************************************************************************)
BudgetElapsed(r) ==
    /\ response[r].writes = 0
    /\ \A i \in 1..Len(trace[r]) : trace[r][i].kind # "budget elapsed"
    /\ handler[r] # "abandoned"
    /\ Step(r, IF handler[r] = "idle" THEN "abandoned" ELSE handler[r], cb[r],
            <<Ev("budget elapsed", "5000")>>, response[r])
    /\ UNCHANGED <<req, outbox>>

NextTimed ==
    \/ Next
    \/ \E r \in Requests : BudgetElapsed(r)

SpecTimed == Init /\ [][NextTimed]_vars

(***************************************************************************)
(* The pure functions on their own, over every text of a bounded set.      *)
(***************************************************************************)
Pieces ==
    { <<"!", "[", "a">>, <<"!", "[", "b">>, <<"]", "(", "u", ")">>, <<"]", "(", "v">>,
      <<")">>, <<"]">>, <<"\n">>, <<"x">> }

\* the texts made of at most n pieces
RECURSIVE Concats(_)
Concats(n) ==
    IF n = 0 THEN {<<>>}
    ELSE LET shorter == Concats(n - 1)
         IN  shorter \cup {d \o p : d \in shorter, p \in Pieces}

Descriptions == Concats(MaxFrags)

TitleChars == {"-", "p", "r", "e", "c"}

Titles == UNION {[1..n -> TitleChars] : n \in 0..MaxTitleLen}

NoRequests ==
    /\ nodeEnv = "production"
    /\ req = <<>>
    /\ handler = <<>>
    /\ cb = <<>>
    /\ trace = <<>>
    /\ response = <<>>
    /\ outbox = <<>>

InitExtract ==
    /\ NoRequests
    /\ arg \in [baseUrl : {BaseNoScheme, BaseCdn}, description : Descriptions]
    /\ ret = <<>>

ExtractCall ==
    /\ ret = <<>>
    /\ ret' = <<extractImagesFromDescription(arg.baseUrl, arg.description)>>
    /\ UNCHANGED <<arg, pipelineVars>>

SpecExtract == InitExtract /\ [][ExtractCall]_vars

InitTitle ==
    /\ NoRequests
    /\ arg \in Titles
    /\ ret = <<>>

ColorCall ==
    /\ ret = <<>>
    /\ ret' = <<EmbedColor(arg)>>
    /\ UNCHANGED <<arg, pipelineVars>>

SpecTitle == InitTitle /\ [][ColorCall]_vars

\* expressJsonErrorHandler on its own, over errors with every combination of
\* status and statusCode, in both environments
StatusValues == {<<>>, <<200>>, <<399>>, <<400>>, <<404>>, <<503>>}

Errors ==
    { JsError(k[1], k[2], s, sc, k[3], <<>>) :
        k \in { <<"Error", "connect ETIMEDOUT", <<"ETIMEDOUT">>>>,
                <<"TypeError", "Invalid URL", <<"ERR_INVALID_URL">>>>,
                <<"NotFoundError", "Not Found", <<>>>> },
        s \in StatusValues, sc \in StatusValues }

InitHandler ==
    /\ nodeEnv \in {"development", "production"}
    /\ req = <<>>
    /\ handler = <<>>
    /\ cb = <<>>
    /\ trace = <<>>
    /\ response = <<>>
    /\ outbox = <<>>
    /\ arg \in Errors
    /\ ret = <<>>

HandlerCall ==
    /\ ret = <<>>
    /\ ret' = <<expressJsonErrorHandler(arg, NoResponse)>>
    /\ UNCHANGED <<arg, pipelineVars>>

SpecHandler == InitHandler /\ [][HandlerCall]_vars

(***************************************************************************)
(* Properties.                                                             *)
(***************************************************************************)
CountOf(r, kind) == Cardinality({i \in 1..Len(trace[r]) : trace[r][i].kind = kind})

Answered(r) == response[r].writes > 0

\* the positions at which the callback has given its error to next
CallbackFailures ==
    {"channelNotFound", "channelRejected", "topicNotFound", "topicRejected",
     "extractThrew", "composeThrew", "sendRejected"}

\* the request failed: validation, login, or a step of the callback
Failed(r) ==
    \/ handler[r] \in {"parseFailed", "rejected", "loginFailed"}
    \/ cb[r] \in CallbackFailures

\* the body of the answer is an error envelope
IsEnvelope(r) ==
    /\ response[r].writes = 1
    /\ Len(response[r].body) = 1
    /\ response[r].body[1].status = response[r].status
    /\ response[r].status >= 400

\* C1: a request whose fields are all valid and whose login, ready signal,
\* channel lookup, topic lookup and send all succeeded is answered 204 with an
\* empty body, and a 204 is never written unless the send completed.
C1_SuccessIs204 ==
    \A r \in Requests :
        /\ cb[r] = "done" =>
              /\ FirstFailed(Asserts(req[r]), 1) = <<>>
              /\ response[r] = [writes |-> 1, status |-> 204, body |-> <<>>]
        /\ (Answered(r) /\ response[r].status = 204) =>
              /\ cb[r] = "done"
              /\ CountOf(r, "send") = 1
              /\ outbox[r] # <<>>

C1_Witness ==
    \E r \in Requests :
        /\ cb[r] = "done"
        /\ response[r].status = 204
        /\ response[r].writes = 1

\* the required fields in the order of the checks, with the names the
\* messages use
RequiredNames ==
    <<"Base url", "Bot token", "Channel ID", "Topic ID", "Post title", "Post link">>

RequiredValue(rq, i) ==
    CASE i = 1 -> rq.baseUrl
      [] i = 2 -> rq.token
      [] i = 3 -> rq.channel
      [] i = 4 -> rq.topic
      [] i = 5 -> rq.title
      [] OTHER -> rq.link

MissingFields(rq) == {i \in 1..6 : ~Truthy(RequiredValue(rq, i))}

Validated(r) == handler[r] \notin {"idle", "parseFailed"}

\* C2: a request with a required field absent, empty or falsy fails validation
\* with a message naming the first missing field in the order baseUrl,
\* credential, channelId, topicId, title, link, whatever else is missing; a
\* request with none missing passes validation.
C2_FirstMissingFieldNamed ==
    \A r \in Requests :
        Validated(r) =>
            LET missing == MissingFields(req[r])
                first == CHOOSE i \in missing : \A j \in missing : i <= j
            IN  IF missing = {}
                THEN /\ handler[r] # "rejected"
                     /\ cb[r] # "none"
                ELSE /\ handler[r] = "rejected"
                     /\ cb[r] = "none"
                     /\ response[r].body[1].message =
                            <<RequiredNames[first] \o " is required.">>
                     /\ \A i \in 1..Len(trace[r]) :
                            trace[r][i].kind = "console.error" =>
                                trace[r][i].arg = RequiredNames[first] \o " is required."

C2_Witness ==
    \E r \in Requests :
        /\ handler[r] = "rejected"
        /\ Cardinality(MissingFields(req[r])) >= 2
        /\ 1 \notin MissingFields(req[r])

\* C3: a request that fails validation is answered with a status in the 4xx
\* class.
C3_MissingFieldIs4xx ==
    \A r \in Requests :
        handler[r] = "rejected" => response[r].status \in 400..499

\* C4: when the channel lookup resolves to nothing the request is answered
\* with a 4xx (404-class) error whose message names the channel id.
C4_ChannelNotFoundIs404 ==
    \A r \in Requests :
        cb[r] = "channelNotFound" =>
            /\ response[r].status \in 400..499
            /\ response[r].body[1].message =
                   <<"Channel with id " \o req[r].channel.v \o " not found">>

\* a request is at its end: answered 204 after the send, or failed and
\* answered with the error envelope, in either case exactly once
Terminal(r) ==
    \/ cb[r] = "done" /\ ~Failed(r) /\ response[r].writes = 1 /\ response[r].status = 204
    \/ Failed(r) /\ cb[r] # "done" /\ IsEnvelope(r) /\ CountOf(r, "next") = 1

\* C5: every request reaches a terminal outcome, provided every downstream
\* call returns or fails: a failure at any stage ends in the error envelope
\* for that request, anything else in the 204, and a request that has been
\* answered stays as it is.
C5_EveryRequestAnswered ==
    /\ <>[](\A r \in Requests : Terminal(r))
    /\ [](\A r \in Requests : Answered(r) => Terminal(r))

C5_Witness ==
    \E r \in Requests : cb[r] = "sendRejected" /\ Terminal(r)

(***************************************************************************)
(* The image markup, stated on its own: s[i..j] is  ![alt](url)  with a    *)
(* non-empty alt free of "]" and line breaks and a non-empty url free of   *)
(* ")" and line breaks.  The occurrences of a text are taken from the left *)
(* and do not overlap.                                                     *)
(***************************************************************************)
LineBreaks == {"\r", "\n"}

WellFormedAt(s, i, j) ==
    /\ s[i] = "!"
    /\ i + 6 <= j
    /\ s[i + 1] = "["
    /\ s[j] = ")"
    /\ \E k \in (i + 3)..(j - 3) :
        /\ s[k] = "]"
        /\ s[k + 1] = "("
        /\ \A x \in (i + 2)..(k - 1) : s[x] # "]" /\ s[x] \notin LineBreaks
        /\ \A x \in (k + 2)..(j - 1) : s[x] # ")" /\ s[x] \notin LineBreaks

RECURSIVE Occurrences(_, _)
Occurrences(s, from) ==
    LET starts == {i \in from..Len(s) : \E j \in i..Len(s) : WellFormedAt(s, i, j)}
    IN  IF starts = {} THEN <<>>
        ELSE LET i == CHOOSE x \in starts : \A y \in starts : x <= y
                 j == CHOOSE y \in i..Len(s) : WellFormedAt(s, i, y)
                 k == CHOOSE x \in (i + 3)..j : s[x] = "]" /\ \A y \in (i + 2)..(x - 1) : s[y] # "]"
             IN  << [first |-> i, last |-> j,
                     alt |-> SubSeq(s, i + 2, k - 1),
                     url |-> SubSeq(s, k + 2, j - 1)] >> \o Occurrences(s, j + 1)

\* the text with the K-th occurrence replaced by [imageK:alt] (K below 10)
RECURSIVE Rewritten(_, _, _, _)
Rewritten(s, from, occs, k) ==
    IF k > Len(occs) THEN SubSeq(s, from, Len(s))
    ELSE SubSeq(s, from, occs[k].first - 1)
         \o <<"[", "i", "m", "a", "g", "e", <<"1", "2", "3", "4", "5", "6", "7", "8", "9">>[k], ":">>
         \o occs[k].alt \o <<"]">>
         \o Rewritten(s, occs[k].last + 1, occs, k + 1)

ExtractedAsSpecified(result, description, occs) ==
    /\ ~result.threw
    /\ Len(result.images) = Len(occs)
    /\ \A k \in 1..Len(occs) :
        /\ result.images[k].description = occs[k].alt
        /\ result.images[k].attachment = BaseCdn \o occs[k].url
    /\ result.text = Rewritten(description, 1, occs, 1)

\* C6 as stated: for every description with N well-formed occurrences the
\* function returns N images in order of appearance and the text with the
\* K-th occurrence replaced by the placeholder [imageK:alt of the K-th image],
\* everything else unchanged.
C6_AsStated ==
    ret # <<>> =>
        ExtractedAsSpecified(ret[1], arg.description, Occurrences(arg.description, 1))

\* C6, amended: the same, for the descriptions whose image urls resolve
\* against the base url; when there is an occurrence and the base url is not
\* an absolute URL, new URL throws and the function returns nothing.
C6_ImagesAndPlaceholders ==
    ret # <<>> =>
        LET occs == Occurrences(arg.description, 1)
        IN  IF occs # <<>> /\ arg.baseUrl # BaseCdn
            THEN ret[1].threw
            ELSE ExtractedAsSpecified(ret[1], arg.description, occs)

C6_Witness ==
    /\ ret # <<>>
    /\ ~ret[1].threw
    /\ Len(ret[1].images) = 2
    /\ ret[1].images[1].description # ret[1].images[2].description

\* C7: a description with no well-formed occurrence (the empty one, or one
\* whose markup is malformed: brackets or parentheses unbalanced, a line break
\* inside alt or url) comes back unchanged, with no image.
C7_NoMarkupUnchanged ==
    (ret # <<>> /\ Occurrences(arg.description, 1) = <<>>) =>
        ret[1] = [threw |-> FALSE, text |-> arg.description, images |-> <<>>]

C7_Witness ==
    /\ ret # <<>>
    /\ arg.description = <<"!", "[", "a", "\n", "]", "(", "u", ")">>
    /\ ret[1].images = <<>>
    /\ ret[1].text = arg.description

Contains(s, pat) ==
    \E i \in 1..Len(s) :
        /\ i + Len(pat) - 1 <= Len(s)
        /\ \A k \in 1..Len(pat) : s[i + k - 1] = pat[k]

\* C8: the embed has the prerelease colour exactly when the title contains
\* "-pre" or "-rc" at some position, and the default colour otherwise.
C8_PrereleaseColor ==
    ret # <<>> =>
        IF Contains(arg, <<"-", "p", "r", "e">>) \/ Contains(arg, <<"-", "r", "c">>)
        THEN ret = <<"Navy">>
        ELSE ret = <<"Blurple">>

C8_Witness ==
    /\ ret = <<"Navy">>
    /\ arg = <<"-", "r", "c", "-", "p">>

CallKinds == {"new Client", "client.login", "channels.fetch", "threads.fetch", "send"}

\* C9: within a request the login, the channel lookup, the topic lookup and
\* the send are each initiated at most once, and no downstream call follows a
\* failure.
C9_NoRetry ==
    \A r \in Requests :
        /\ \A kind \in CallKinds : CountOf(r, kind) <= 1
        /\ \A i, j \in 1..Len(trace[r]) :
              (i < j /\ trace[r][i].kind = "next") => trace[r][j].kind \notin CallKinds
        /\ Failed(r) => CountOf(r, "next") = 1

C9_Witness ==
    \E r \in Requests :
        /\ cb[r] = "topicRejected"
        /\ CountOf(r, "channels.fetch") = 1
        /\ CountOf(r, "threads.fetch") = 1
        /\ CountOf(r, "send") = 0

\* C10: every failure of the pipeline (validation, authentication, channel or
\* topic not found, image extraction, delivery) is logged (console.error)
\* before the error response of its request is written.
C10_LoggedBeforeAnswer ==
    \A r \in Requests :
        (Failed(r) /\ handler[r] # "parseFailed") =>
            \A j \in 1..Len(trace[r]) :
                trace[r][j].kind = "res.json" =>
                    \E i \in 1..(j - 1) : trace[r][i].kind = "console.error"

\* the calls that complete a request: the 204 of the callback, the hand-off
\* of an error and the writing of its envelope
CompletionKinds == {"next", "res.status", "res.json", "res.send"}

\* C11: once the time budget of a request has run out, neither the 204 nor an
\* error envelope is written for it any more, whatever its pending calls to
\* the Discord client do afterwards.
C11_NoCompletionAfterBudget ==
    \A r \in Requests :
        \A i, j \in 1..Len(trace[r]) :
            (i < j /\ trace[r][i].kind = "budget elapsed")
                => trace[r][j].kind \notin CompletionKinds

\* C12: the status of an error envelope is the failure's status, or its
\* statusCode when it has no status, if that number is at least 400, and 500
\* when the failure has neither or the number is below 400; so it is never
\* below 400, and the status field of the body is the HTTP status.
C12_StatusFromFailure ==
    ret # <<>> =>
        LET resp == ret[1].response
            given == IF arg.status # <<>> THEN arg.status ELSE arg.statusCode
            expected == IF given # <<>> /\ given[1] >= 400 THEN given[1] ELSE 500
        IN  /\ resp.writes = 1
            /\ resp.status = expected
            /\ resp.status >= 400
            /\ resp.body[1].status = resp.status

\* an error whose status is below 400 and whose statusCode is not: 500
C12_Witness ==
    /\ ret # <<>>
    /\ arg.status = <<200>>
    /\ arg.statusCode = <<404>>
    /\ ret[1].response.status = 500
    /\ ret[1].response.body[1].status = 500

\* the failure carries neither status nor statusCode
Unclassified(err) == err.status = <<>> /\ err.statusCode = <<>>

\* C13: in production no error envelope has a stack, outside production every
\* envelope has the failure's stack, and an unclassified failure is answered
\* 500 with a message that is not the failure's own text.
C13_StackAndGenericMessage ==
    ret # <<>> =>
        LET resp == ret[1].response
            body == resp.body[1]
        IN  /\ isProductionEnvironment => body.stack = <<>>
            /\ ~isProductionEnvironment => body.stack = <<arg.stack>>
            /\ Unclassified(arg) =>
                  /\ resp.status = 500
                  /\ body.message # <<arg.message>>

\* every event `later` of the trace of r comes after an event `earlier`
After(r, earlier, later) ==
    \A j \in 1..Len(trace[r]) :
        trace[r][j] = later => \E i \in 1..(j - 1) : trace[r][i] = earlier

\* C14: within a request the channel lookup is issued only after the ready
\* signal, the topic lookup only after the channel lookup returned a channel,
\* the extraction and the composition only after the topic lookup returned a
\* topic, and the send only after the composition.
C14_StepsInOrder ==
    \A r \in Requests :
        LET rq == req[r]
            ready == Ev("console.log", "Bot is ready")
            channelCall == Ev("channels.fetch", rq.channel.v)
            channelFound == Ev("console.log", "Found channel (" \o rq.channel.v \o ")")
            topicCall == Ev("threads.fetch", rq.topic.v)
            topicFound == Ev("console.log", "Found topic (" \o rq.topic.v \o ")")
            extractedLog == Ev("console.info", "Extracted images from description: ")
            sendCall == Ev("send", rq.topic.v)
        IN  /\ CountOf(r, "channels.fetch") > 0 => After(r, ready, channelCall)
            /\ CountOf(r, "threads.fetch") > 0 =>
                  /\ After(r, channelCall, channelFound)
                  /\ After(r, channelFound, topicCall)
            /\ After(r, topicCall, topicFound)
            /\ After(r, topicFound, extractedLog)
            /\ CountOf(r, "send") > 0 =>
                  /\ After(r, extractedLog, sendCall)
                  /\ outbox[r] # <<>>
            /\ outbox[r] # <<>> =>
                  \E i \in 1..Len(trace[r]) : trace[r][i] = topicFound
            /\ \A j \in 1..Len(trace[r]) :
                  /\ trace[r][j].kind = "channels.fetch" => trace[r][j] = channelCall
                  /\ trace[r][j].kind = "threads.fetch" => trace[r][j] = topicCall
                  /\ trace[r][j].kind = "send" => trace[r][j] = sendCall

C14_Witness ==
    \E r \in Requests :
        /\ CountOf(r, "channels.fetch") = 1
        /\ CountOf(r, "threads.fetch") = 1
        /\ CountOf(r, "send") = 1
        /\ outbox[r] # <<>>

\* the calls that create or use a session of the Discord client
SessionKinds == {"new Client", "client.once", "client.login"}

\* C15: a request that fails validation creates no session and issues neither
\* a login nor a send; a request that fails in the channel or the topic
\* lookup issues no send; a login is issued only by a request whose required
\* fields are all present, and a send only after both lookups succeeded.
C15_EffectsOnlyWhenDue ==
    \A r \in Requests :
        /\ handler[r] \in {"parseFailed", "rejected"} =>
              /\ \A k \in SessionKinds \cup {"send"} : CountOf(r, k) = 0
              /\ cb[r] = "none"
              /\ outbox[r] = <<>>
        /\ cb[r] \in {"channelNotFound", "channelRejected",
                      "topicNotFound", "topicRejected"} =>
              /\ CountOf(r, "send") = 0
              /\ outbox[r] = <<>>
        /\ CountOf(r, "client.login") > 0 => FirstFailed(Asserts(req[r]), 1) = <<>>
        /\ CountOf(r, "send") > 0 => cb[r] \in {"sending", "done", "sendRejected"}

C15_Witness ==
    \E r \in Requests :
        /\ handler[r] = "rejected"
        /\ Answered(r)
        /\ CountOf(r, "console.error") = 1
        /\ CountOf(r, "new Client") = 0

\* what request r holds: its input, the positions of its handler and of its
\* callback, its trace, its response and what it sent
Local(r) == <<req[r], handler[r], cb[r], trace[r], response[r], outbox[r]>>

\* the first status set on the response of r, and the number of bodies
\* written to it, as its own trace tells them
StatusSet(r) ==
    LET at == {i \in 1..Len(trace[r]) : trace[r][i].kind = "res.status"}
    IN  IF at = {} THEN "200"
        ELSE trace[r][CHOOSE i \in at : \A k \in at : i <= k].arg

BodiesWritten(r) == CountOf(r, "res.json") + CountOf(r, "res.send")

\* the request uses the client it created, its own ids, token and content,
\* and its response is the one its own steps wrote
OwnEverything(r) ==
    /\ \A i \in 1..Len(trace[r]) :
          LET e == trace[r][i]
          IN  /\ e.kind \in {"new Client", "client.once"} => e.arg = ToString(r)
              /\ e.kind = "client.login" => e.arg = req[r].token.v
              /\ e.kind = "channels.fetch" => e.arg = req[r].channel.v
              /\ e.kind = "threads.fetch" => e.arg = req[r].topic.v
              /\ e.kind = "send" => e.arg = req[r].topic.v
    /\ \A k \in {"new Client", "client.once", "client.login"} : CountOf(r, k) <= 1
    /\ outbox[r] # <<>> =>
          outbox[r] = <<Compose(req[r],
                                extractImagesFromDescription(
                                    req[r].baseUrl.v, OrElse(req[r].description, <<>>)))>>
    /\ response[r].writes = BodiesWritten(r)
    /\ ToString(response[r].status) = StatusSet(r)

\* C16: with several requests in flight, every request creates a client of
\* its own and registers its callback on it, no two requests share a client,
\* every lookup, login and send of a request carries that request's ids,
\* token and content, its response is what its own steps wrote, and a step of
\* one request changes nothing of any other request.
C16_RequestsIsolated ==
    /\ [](\A r \in Requests : OwnEverything(r))
    /\ [](\A r, q \in Requests :
             (r # q /\ CountOf(r, "new Client") > 0 /\ CountOf(q, "new Client") > 0)
                 => \A i \in 1..Len(trace[r]), j \in 1..Len(trace[q]) :
                       (trace[r][i].kind = "new Client" /\ trace[q][j].kind = "new Client")
                           => trace[r][i].arg # trace[q][j].arg)
    /\ [][\E r \in Requests : \A q \in Requests \ {r} : Local(q)' = Local(q)]_vars

\* two requests for different channels both past their channel lookup, one
\* answered 204 and the other still sending
C16_Witness ==
    \E r, q \in Requests :
        /\ r # q
        /\ req[r].channel # req[q].channel
        /\ cb[r] = "done"
        /\ cb[q] = "sending"
        /\ response[r].status = 204
        /\ response[q].writes = 0

\* the times the request was completed: the 204 sent or an error handed to
\* next
Completions(r) == CountOf(r, "res.send") + CountOf(r, "next")

\* C17: however the settling of login and the steps of the ready callback
\* interleave, a request is completed at most once: it never gets a 204 and
\* an error hand-off, never two hand-offs, and its response is written once
\* at most.
C17_CompletedAtMostOnce ==
    \A r \in Requests :
        /\ Completions(r) <= 1
        /\ CountOf(r, "res.json") <= CountOf(r, "next")
        /\ response[r].writes <= 1

\* login resolved and the callback failed: the continuation of login and
\* the inner catch have both run, with one hand-off
C17_Witness ==
    \E r \in Requests :
        /\ handler[r] = "loggedIn"
        /\ cb[r] = "channelRejected"
        /\ CountOf(r, "next") = 1
        /\ response[r].writes = 1
=============================================================================
